---- MODULE Spec2Model ----
(***************************************************************************)
(* A model of the chatbot backend: the MiniGPT responder of src/minigpt.py *)
(* (knowledge base, response tree, breadth-first and depth-first search,   *)
(* reconciliation) and the /chat/ handler of src/app.py.                   *)
(*                                                                         *)
(* Strings are sequences of one-character strings, so that lower(),        *)
(* split(), len() and the substring test `in` are computed and not assumed.*)
(* A reference to a Node is its index in `nodes` (the heap of Node         *)
(* objects, in creation order); Python's None is NoNode where a Node is    *)
(* expected, NoStr where a str is expected, and None elsewhere.            *)
(***************************************************************************)
EXTENDS Integers, Sequences, FiniteSets, TLC

VARIABLES
    kb,             \* MiniGPT.knowledge_base: the loaded JSON object, its keys in document order
    built,          \* "no" before MiniGPT() runs, "ok" after it returned, "failed" when it raised
    error,          \* the exception MiniGPT() raised ("none" when it did not)
    nodes,          \* the Node objects reachable from MiniGPT.root; nodes[ROOT_ID] is the root
    calls,          \* per call of get_response: its position and its local variables
    conversations,  \* app.conversations: conversation_id -> Conversation
    reply           \* the HTTP reply of the last /chat/ request

vars == <<kb, built, error, nodes, calls, conversations, reply>>

\* Python's None: where a Node is expected, where a str is expected, elsewhere
NoNode == 0
NoStr == <<"None">>
None == "None"

Range(s) == {s[i] : i \in DOMAIN s}

-----------------------------------------------------------------------------
(* Bounds of the model.                                                    *)

\* categories in a knowledge base
MaxCats == 2
\* characters in a query given to get_response
MaxQueryLen == 3
\* characters in a query of the two concurrent calls
MaxConcQueryLen == 1
\* messages a conversation holds (the system message included)
MaxMessages == 3

-----------------------------------------------------------------------------
(* Strings.                                                                *)

\* str.lower() on one character, for the letters the model uses
LowerChar(c) ==
    CASE c = "A" -> "a"
      [] c = "O" -> "o"
      [] c = "R" -> "r"
      [] c = "T" -> "t"
      [] OTHER -> c

Lower(s) == [i \in 1..Len(s) |-> LowerChar(s[i])]

IsSpace(c) == c = " "

\* str.split() with no argument: the maximal runs of non-whitespace characters, in
\* order; `cur` is the run being read
RECURSIVE SplitFrom(_, _, _)
SplitFrom(s, i, cur) ==
    IF i > Len(s) THEN (IF cur = <<>> THEN <<>> ELSE <<cur>>)
    ELSE IF IsSpace(s[i])
         THEN (IF cur = <<>> THEN <<>> ELSE <<cur>>) \o SplitFrom(s, i + 1, <<>>)
         ELSE SplitFrom(s, i + 1, Append(cur, s[i]))

Split(s) == SplitFrom(s, 1, <<>>)

\* a in b, for strings
In(a, b) == \E i \in 0..(Len(b) - Len(a)) : SubSeq(b, i + 1, i + Len(a)) = a

\* query_words = set(query.lower().split())
QueryWords(query) == Range(Split(Lower(query)))

\* one term of the sum: word in node.keyword.lower() or node.keyword.lower() in word
WordMatches(word, keyword) == In(word, Lower(keyword)) \/ In(Lower(keyword), word)

\* sum(1 for word in query_words if ...): one pass over the set's elements
RECURSIVE SumOver(_, _)
SumOver(words, keyword) ==
    IF words = {} THEN 0
    ELSE LET w == CHOOSE x \in words : TRUE
         IN  (IF WordMatches(w, keyword) THEN 1 ELSE 0) + SumOver(words \ {w}, keyword)

RECURSIVE SumOverList(_, _)
SumOverList(ws, keyword) ==
    IF ws = <<>> THEN 0
    ELSE (IF WordMatches(Head(ws), keyword) THEN 1 ELSE 0) + SumOverList(Tail(ws), keyword)

\* the score without set(): every occurrence of a word counts
ScoreNoDedupe(query, keyword) == SumOverList(Split(Lower(query)), keyword)

\* score of a node's keyword for a query
Score(query, keyword) == SumOver(QueryWords(query), keyword)

\* the strings of at most n characters over an alphabet
RECURSIVE StringsUpTo(_, _)
StringsUpTo(alphabet, n) ==
    IF n = 0 THEN {<<>>}
    ELSE LET shorter == StringsUpTo(alphabet, n - 1)
         IN  shorter \cup {Append(s, c) : s \in shorter, c \in alphabet}

QueryAlphabet == {"a", "o", "A", " "}
Queries == StringsUpTo(QueryAlphabet, MaxQueryLen)
ConcAlphabet == {"a", "o"}
ConcQueries == StringsUpTo(ConcAlphabet, MaxConcQueryLen)

-----------------------------------------------------------------------------
(* The knowledge base: a JSON object, category -> {keywords, responses}.   *)
(* An entry is [name, data]; data is a record whose domain is the keys the *)
(* category's object has.                                                  *)

FALLBACK == <<"f", "a", "l", "l", "b", "a", "c", "k">>
ROOT == <<"R", "O", "O", "T">>

Entry(name, data) == [name |-> name, data |-> data]

\* the category entries knowledge bases are made of
Entries ==
    { Entry(<<"a">>, [keywords |-> <<>>, responses |-> << <<"x">>, <<"y", "y">> >>]),
      Entry(<<"o">>, [keywords |-> << <<"A">>, <<"a", "o">> >>,
                      responses |-> << <<"y">> >>]),
      Entry(FALLBACK, [keywords |-> <<>>, responses |-> << <<"n">>, <<"m", "m">> >>]),
      Entry(FALLBACK, [keywords |-> <<>>, responses |-> << <<>> >>]),
      Entry(<<"m">>, [responses |-> << <<"x">> >>]),
      Entry(<<"m">>, [keywords |-> << <<"a">> >>]),
      Entry(<<"m">>, [keywords |-> << <<"a">> >>, responses |-> <<>>]) }

\* a JSON object has each key once
DistinctNames(k) == \A i, j \in DOMAIN k : i # j => k[i].name # k[j].name

RECURSIVE EntrySeqs(_)
EntrySeqs(n) ==
    IF n = 0 THEN {<<>>}
    ELSE LET shorter == EntrySeqs(n - 1)
         IN  shorter \cup {Append(k, e) : k \in shorter, e \in Entries}

KBs == {k \in EntrySeqs(MaxCats) : DistinctNames(k)}

HasKey(k, name) == \E i \in DOMAIN k : k[i].name = name

\* knowledge_base[name]
Get(k, name) == k[CHOOSE i \in DOMAIN k : k[i].name = name].data

-----------------------------------------------------------------------------
(* The response tree.                                                      *)

ROOT_ID == 1

Node(keyword, response, children) ==
    [keyword |-> keyword, response |-> response, children |-> children]

\* the keyword nodes of one category, each bound to a response drawn from `responses`
RECURSIVE KeywordNodes(_, _)
KeywordNodes(keywords, responses) ==
    IF keywords = <<>> THEN {<<>>}
    ELSE {<<Node(Head(keywords), r, <<>>)>> \o rest :
              r \in Range(responses), rest \in KeywordNodes(Tail(keywords), responses)}

\* the heap after one pass of the loop over the categories: the category node, its
\* keyword nodes appended to it, and the category node appended to the root
AddCategory(ns, name, response, kwnodes) ==
    LET cid == Len(ns) + 1
        kids == [j \in 1..Len(kwnodes) |-> cid + j]
        grown == Append(ns, Node(name, response, kids)) \o kwnodes
    IN  [grown EXCEPT ![ROOT_ID].children = Append(@, cid)]

Built(ns) == [error |-> "none", nodes |-> ns]
BuildRaises(e) == [error |-> e, nodes |-> <<>>]

\* for category, data in self.knowledge_base.items(), from category i on: every outcome
\* of the random draws, or the exception of the first entry that raises
\* (data["responses"] is read first, random.choice of an empty list raises IndexError,
\* data["keywords"] is read next)
RECURSIVE BuildFrom(_, _, _)
BuildFrom(k, i, ns) ==
    IF i > Len(k) THEN {Built(ns)}
    ELSE LET data == k[i].data
         IN  IF "responses" \notin DOMAIN data THEN {BuildRaises("KeyError")}
             ELSE IF data.responses = <<>> THEN {BuildRaises("IndexError")}
             ELSE IF "keywords" \notin DOMAIN data THEN {BuildRaises("KeyError")}
             ELSE UNION {BuildFrom(k, i + 1, AddCategory(ns, k[i].name, r, kws)) :
                             r \in Range(data.responses),
                             kws \in KeywordNodes(data.keywords, data.responses)}

\* _build_response_tree: root = Node("ROOT", ""), then the loop
BuildResponseTree(k) == BuildFrom(k, 1, <<Node(ROOT, <<>>, <<>>)>>)

-----------------------------------------------------------------------------
(* One call of get_response: its position and its locals.                  *)

Calls == {1, 2}

IdleCall ==
    [pc |-> "idle", query |-> NoStr, queue |-> <<>>, stack |-> <<>>,
     best_match |-> NoNode, best_score |-> 0, node |-> NoNode, score |-> 0,
     visited |-> <<>>, draws |-> 0,
     bfs_response |-> NoStr, dfs_response |-> NoStr, result |-> NoStr, raised |-> None]

Returns(value, drew) == [raised |-> None, value |-> value, drew |-> drew]
Raises(e) == [raised |-> e, value |-> NoStr, drew |-> 0]

\* the short-circuit with a random draw instead of index 0
ShortCircuitRandom(k) ==
    IF ~HasKey(k, FALLBACK) THEN {Raises("KeyError")}
    ELSE {Returns(r, 1) : r \in Range(Get(k, FALLBACK).responses)}

\* the short-circuit taking the pool's last response
ShortCircuitLast(k) ==
    IF ~HasKey(k, FALLBACK) THEN {Raises("KeyError")}
    ELSE LET responses == Get(k, FALLBACK).responses
         IN  {Returns(responses[Len(responses)], 0)}

\* if not query: return self.knowledge_base["fallback"]["responses"][0]
ShortCircuit(k) ==
    IF ~HasKey(k, FALLBACK) THEN {Raises("KeyError")}
    ELSE {Returns(Get(k, FALLBACK).responses[1], 0)}

\* the locals of a traversal as it reaches its loop
EnterLoop(l, first) ==
    [l EXCEPT !.queue = first, !.stack = first, !.best_match = NoNode, !.best_score = 0,
              !.node = NoNode, !.score = 0, !.visited = <<>>, !.draws = 0]

\* the candidate test that lets a later node of equal score replace the earlier one
QualifiesOnTie(score, best_score, response) == score >= best_score /\ response # <<>>

\* the candidate test without the check of the node's response
QualifiesAnyResponse(score, best_score, response) == score > best_score

\* if score > best_score and node.response
Qualifies(score, best_score, response) == score > best_score /\ response # <<>>

\* the body of both loops after the node is taken: score it, keep it if it qualifies
Visit(ns, l, n) ==
    LET s == Score(l.query, ns[n].keyword)
        better == Qualifies(s, l.best_score, ns[n].response)
    IN  [l EXCEPT !.node = n, !.score = s,
                  !.best_score = IF better THEN s ELSE @,
                  !.best_match = IF better THEN n ELSE @,
                  !.visited = Append(@, n)]

\* one pass of `while queue`: popleft, visit, append the children in stored order
BfsIter(ns, l) ==
    LET n == Head(l.queue)
    IN  [Visit(ns, l, n) EXCEPT !.queue = Tail(l.queue) \o ns[n].children]

Reverse(s) == [i \in 1..Len(s) |-> s[Len(s) + 1 - i]]

\* one pass of `while stack`: pop, visit, push the children in reverse order
DfsIter(ns, l) ==
    LET n == l.stack[Len(l.stack)]
    IN  [Visit(ns, l, n) EXCEPT
            !.stack = SubSeq(l.stack, 1, Len(l.stack) - 1) \o Reverse(ns[n].children)]

\* after either loop: the best match's response, or a random fallback response
AfterLoop(k, ns, l) ==
    IF l.best_match # NoNode /\ l.best_score > 0
    THEN {Returns(ns[l.best_match].response, 0)}
    ELSE IF ~HasKey(k, FALLBACK) THEN {Raises("KeyError")}
    ELSE {Returns(r, 1) : r \in Range(Get(k, FALLBACK).responses)}

\* the reconciliation that also takes the depth-first result on a tie
LongerOrEqual(bfs_response, dfs_response) ==
    IF Len(dfs_response) >= Len(bfs_response) THEN dfs_response ELSE bfs_response

\* if len(dfs_response) > len(bfs_response): return dfs_response; return bfs_response
Longer(bfs_response, dfs_response) ==
    IF Len(dfs_response) > Len(bfs_response) THEN dfs_response ELSE bfs_response

\* the call's locals as _bfs_search ends with outcome o
BfsEnds(l, o) ==
    IF o.raised # None
    THEN [l EXCEPT !.pc = "raised", !.raised = o.raised]
    ELSE [l EXCEPT !.pc = "bfs_done", !.bfs_response = o.value, !.draws = @ + o.drew]

DfsEnds(l, o) ==
    IF o.raised # None
    THEN [l EXCEPT !.pc = "raised", !.raised = o.raised]
    ELSE [l EXCEPT !.pc = "dfs_done", !.dfs_response = o.value, !.draws = @ + o.drew]

-----------------------------------------------------------------------------
(* Actions of the responder.                                               *)

\* no /chat/ request has been answered yet
NoReply ==
    [status |-> 0, response |-> NoStr, detail |-> None, cause |-> None,
     mode |-> None, conversation_id |-> None, was_inactive |-> FALSE, appended |-> 0]

Init ==
    /\ kb \in KBs
    /\ built = "no"
    /\ error = "none"
    /\ nodes = <<>>
    /\ calls = [c \in Calls |-> IdleCall]
    /\ conversations = <<>>
    /\ reply = NoReply

\* minigpt = MiniGPT(): the knowledge base is loaded and the tree is built from it
Construct ==
    /\ built = "no"
    /\ \E o \in BuildResponseTree(kb) :
          /\ built' = IF o.error = "none" THEN "ok" ELSE "failed"
          /\ error' = o.error
          /\ nodes' = o.nodes
    /\ UNCHANGED <<kb, calls, conversations, reply>>

\* get_response(query) is called, with one of `queries`, and _bfs_search runs up to
\* its loop
Start(c, queries) ==
    /\ built = "ok"
    /\ calls[c].pc = "idle"
    /\ \E q \in queries :
          LET l == [IdleCall EXCEPT !.query = q]
          IN  IF q = <<>>
              THEN \E o \in ShortCircuit(kb) : calls' = [calls EXCEPT ![c] = BfsEnds(l, o)]
              ELSE calls' = [calls EXCEPT ![c] =
                                [EnterLoop(l, <<ROOT_ID>>) EXCEPT !.pc = "bfs"]]
    /\ UNCHANGED <<kb, built, error, nodes, conversations, reply>>

BfsStep(c) ==
    /\ calls[c].pc = "bfs"
    /\ calls[c].queue # <<>>
    /\ calls' = [calls EXCEPT ![c] = BfsIter(nodes, calls[c])]
    /\ UNCHANGED <<kb, built, error, nodes, conversations, reply>>

BfsFinish(c) ==
    /\ calls[c].pc = "bfs"
    /\ calls[c].queue = <<>>
    /\ \E o \in AfterLoop(kb, nodes, calls[c]) :
          calls' = [calls EXCEPT ![c] = BfsEnds(calls[c], o)]
    /\ UNCHANGED <<kb, built, error, nodes, conversations, reply>>

\* _dfs_search is called and runs up to its loop
DfsEnter(c) ==
    /\ calls[c].pc = "bfs_done"
    /\ LET l == calls[c]
       IN  IF l.query = <<>>
           THEN \E o \in ShortCircuit(kb) : calls' = [calls EXCEPT ![c] = DfsEnds(l, o)]
           ELSE calls' = [calls EXCEPT ![c] = [EnterLoop(l, <<ROOT_ID>>) EXCEPT !.pc = "dfs"]]
    /\ UNCHANGED <<kb, built, error, nodes, conversations, reply>>

\* the depth-first pass that reverses node.children in place before pushing them
DfsStepReversingInPlace(c) ==
    /\ calls[c].pc = "dfs"
    /\ calls[c].stack # <<>>
    /\ calls' = [calls EXCEPT ![c] = DfsIter(nodes, calls[c])]
    /\ LET n == calls[c].stack[Len(calls[c].stack)]
       IN  nodes' = [nodes EXCEPT ![n].children = Reverse(@)]
    /\ UNCHANGED <<kb, built, error, conversations, reply>>

DfsStep(c) ==
    /\ calls[c].pc = "dfs"
    /\ calls[c].stack # <<>>
    /\ calls' = [calls EXCEPT ![c] = DfsIter(nodes, calls[c])]
    /\ UNCHANGED <<kb, built, error, nodes, conversations, reply>>

DfsFinish(c) ==
    /\ calls[c].pc = "dfs"
    /\ calls[c].stack = <<>>
    /\ \E o \in AfterLoop(kb, nodes, calls[c]) :
          calls' = [calls EXCEPT ![c] = DfsEnds(calls[c], o)]
    /\ UNCHANGED <<kb, built, error, nodes, conversations, reply>>

\* get_response compares the two results and returns
Reconcile(c) ==
    /\ calls[c].pc = "dfs_done"
    /\ LET l == calls[c]
       IN  calls' = [calls EXCEPT ![c] =
                       [l EXCEPT !.pc = "done",
                                 !.result = Longer(l.bfs_response, l.dfs_response)]]
    /\ UNCHANGED <<kb, built, error, nodes, conversations, reply>>

\* the caller has the result (or the exception); the call's frame is gone
Finish(c) ==
    /\ calls[c].pc \in {"done", "raised"}
    /\ calls' = [calls EXCEPT ![c] = IdleCall]
    /\ UNCHANGED <<kb, built, error, nodes, conversations, reply>>

Step(c) ==
    \/ BfsStep(c)
    \/ BfsFinish(c)
    \/ DfsEnter(c)
    \/ DfsStep(c)
    \/ DfsFinish(c)
    \/ Reconcile(c)
    \/ Finish(c)

\* one caller
Next ==
    \/ Construct
    \/ Start(1, Queries)
    \/ Step(1)

Spec == Init /\ [][Next]_vars

\* two callers, their steps interleaved
NextConc ==
    \/ Construct
    \/ \E c \in Calls : Start(c, ConcQueries)
    \/ \E c \in Calls : Step(c)

SpecConc == Init /\ [][NextConc]_vars

-----------------------------------------------------------------------------
(* get_response run to its end in one piece, as the /chat/ handler runs it *)
(* (an async handler without an await is not interleaved with another).    *)

RECURSIVE BfsLoop(_, _)
BfsLoop(ns, l) == IF l.queue = <<>> THEN l ELSE BfsLoop(ns, BfsIter(ns, l))

RECURSIVE DfsLoop(_, _)
DfsLoop(ns, l) == IF l.stack = <<>> THEN l ELSE DfsLoop(ns, DfsIter(ns, l))

BfsSearch(k, ns, q) ==
    IF q = <<>> THEN ShortCircuit(k)
    ELSE AfterLoop(k, ns, BfsLoop(ns, EnterLoop([IdleCall EXCEPT !.query = q], <<ROOT_ID>>)))

DfsSearch(k, ns, q) ==
    IF q = <<>> THEN ShortCircuit(k)
    ELSE AfterLoop(k, ns, DfsLoop(ns, EnterLoop([IdleCall EXCEPT !.query = q], <<ROOT_ID>>)))

\* every outcome of get_response(q): the string returned, or the exception raised
GetResponse(k, ns, q) ==
    UNION {IF b.raised # None THEN {Raises(b.raised)}
           ELSE {IF d.raised # None THEN Raises(d.raised)
                 ELSE Returns(Longer(b.value, d.value), 0) : d \in DfsSearch(k, ns, q)} :
           b \in BfsSearch(k, ns, q)}

-----------------------------------------------------------------------------
(* The /chat/ handler.                                                     *)

ConversationIds == {None, "c1"}
Modes == {"groq", "minigpt"}
ChatMessages == {<<>>, <<"a">>, <<"o">>}
\* what the Groq API answers, when it answers
GroqAnswers == {<<"g">>}

Message(role, content) == [role |-> role, content |-> content]

\* Conversation(): the system message, active
NewConversation ==
    [messages |-> <<Message("system", <<"You are a helpful assistant.">>)>>, active |-> TRUE]

INACTIVE_DETAIL == "Conversation is inactive. Please start a new conversation."

\* HTTPException(status_code, detail); str() of it is left as the pair
HTTPException(status_code, detail) == [status_code |-> status_code, detail |-> detail]

\* the 200 reply: {"response": response, "conversation_id": input.conversation_id}
Ok(input, response, was_inactive, appended) ==
    [status |-> 200, response |-> response, detail |-> None, cause |-> None,
     mode |-> input.mode, conversation_id |-> input.conversation_id,
     was_inactive |-> was_inactive, appended |-> appended]

\* except Exception as e: raise HTTPException(500, f"Error processing request: {str(e)}"),
\* which also catches the HTTPException raised in the try block
Caught(input, e, was_inactive, appended) ==
    [status |-> 500, response |-> NoStr, detail |-> "Error processing request: ", cause |-> e,
     mode |-> input.mode, conversation_id |-> input.conversation_id,
     was_inactive |-> was_inactive, appended |-> appended]

ChatInputs ==
    [message : ChatMessages, role : {"user"}, conversation_id : ConversationIds, mode : Modes]

\* conversations after get_or_create_conversation(conversation_id)
GetOrCreate(convs, id) ==
    IF id \in DOMAIN convs THEN convs ELSE (id :> NewConversation) @@ convs

\* mode == "minigpt"
ChatMiniGPT(input) ==
    /\ built = "ok"
    /\ input.mode = "minigpt"
    /\ \E o \in GetResponse(kb, nodes, input.message) :
          reply' = IF o.raised # None
                   THEN Caught(input, o.raised, FALSE, 0)
                   ELSE Ok(input, o.value, FALSE, 0)
    /\ UNCHANGED <<kb, built, error, nodes, calls, conversations>>

\* any other mode, the conversation inactive
ChatInactive(input) ==
    /\ built = "ok"
    /\ input.mode # "minigpt"
    /\ LET convs == GetOrCreate(conversations, input.conversation_id)
       IN  /\ ~convs[input.conversation_id].active
           /\ conversations' = convs
           /\ reply' = Caught(input, HTTPException(400, INACTIVE_DETAIL), TRUE, 0)
    /\ UNCHANGED <<kb, built, error, nodes, calls>>

\* any other mode, the conversation active: the user's message is appended, the Groq
\* API is queried, and its answer (when it gives one) is appended
ChatGroq(input) ==
    /\ built = "ok"
    /\ input.mode # "minigpt"
    /\ LET id == input.conversation_id
           convs == GetOrCreate(conversations, id)
           asked == Append(convs[id].messages, Message(input.role, input.message))
       IN  /\ convs[id].active
           /\ Len(convs[id].messages) + 2 <= MaxMessages
           /\ \/ \E response \in GroqAnswers :
                    /\ conversations' =
                          [convs EXCEPT ![id].messages =
                              Append(asked, Message("assistant", response))]
                    /\ reply' = Ok(input, response, FALSE, 2)
              \/ /\ conversations' = [convs EXCEPT ![id].messages = asked]
                 /\ reply' = Caught(input, HTTPException(500, "Error querying Groq API: "),
                                    FALSE, 1)
    /\ UNCHANGED <<kb, built, error, nodes, calls>>

\* Conversation.end_conversation
EndConversation(id) ==
    /\ id \in DOMAIN conversations
    /\ conversations[id].active
    /\ conversations' = [conversations EXCEPT ![id].active = FALSE]
    /\ UNCHANGED <<kb, built, error, nodes, calls, reply>>

NextChat ==
    \/ Construct
    \/ \E input \in ChatInputs : ChatMiniGPT(input)
    \/ \E input \in ChatInputs : ChatInactive(input)
    \/ \E input \in ChatInputs : ChatGroq(input)
    \/ \E id \in ConversationIds : EndConversation(id)

SpecChat == Init /\ [][NextChat]_vars

-----------------------------------------------------------------------------
(* What the claims speak of, stated without the traversals.                *)

\* the fallback pool: the responses of the `fallback` category
FallbackPool == IF HasKey(kb, FALLBACK) THEN Range(Get(kb, FALLBACK).responses) ELSE {}

\* the data-model invariant: every category has at least one response, `fallback` exists
MeetsDataModel ==
    /\ HasKey(kb, FALLBACK)
    /\ \A i \in DOMAIN kb :
          /\ DOMAIN kb[i].data = {"keywords", "responses"}
          /\ kb[i].data.responses # <<>>

\* the distinct lowercased whitespace-separated tokens of a query: the maximal runs
\* without whitespace
Tokens(q) ==
    LET lq == Lower(q)
    IN  {SubSeq(lq, i, j) : <<i, j>> \in
            {p \in (1..Len(lq)) \X (1..Len(lq)) :
                /\ p[1] <= p[2]
                /\ \A x \in p[1]..p[2] : lq[x] # " "
                /\ (p[1] = 1 \/ lq[p[1] - 1] = " ")
                /\ (p[2] = Len(lq) \/ lq[p[2] + 1] = " ")}}

\* a is a substring of b: b is some u, then a, then some v
Substring(a, b) == \E i \in 0..Len(b) : \E j \in i..Len(b) : SubSeq(b, i + 1, j) = a

\* the score the specification gives a label for a query
TokenScore(q, label) ==
    Cardinality({t \in Tokens(q) : Substring(t, Lower(label)) \/ Substring(Lower(label), t)})

\* the nodes a traversal may keep for a query: a non-empty response, a score above zero
Candidates(q) ==
    {n \in DOMAIN nodes : nodes[n].response # <<>> /\ TokenScore(q, nodes[n].keyword) > 0}

\* the candidates of the highest score
TopCandidates(q) ==
    LET score == [n \in DOMAIN nodes |-> TokenScore(q, nodes[n].keyword)]
        candidates == {n \in DOMAIN nodes : nodes[n].response # <<>> /\ score[n] > 0}
    IN  {n \in candidates : \A m \in candidates : score[m] <= score[n]}

RECURSIVE ChildrenOf(_)
ChildrenOf(parents) ==
    IF parents = <<>> THEN <<>>
    ELSE nodes[Head(parents)].children \o ChildrenOf(Tail(parents))

\* root, the category nodes in stored order, the keyword nodes category by category
BreadthFirstOrder ==
    LET categories == nodes[ROOT_ID].children
    IN  <<ROOT_ID>> \o categories \o ChildrenOf(categories)

RECURSIVE PreOrder(_)
RECURSIVE PreOrderAll(_)
PreOrder(n) == <<n>> \o PreOrderAll(nodes[n].children)
PreOrderAll(ns) == IF ns = <<>> THEN <<>> ELSE PreOrder(Head(ns)) \o PreOrderAll(Tail(ns))

\* pre-order, children left to right
DepthFirstOrder == PreOrder(ROOT_ID)

\* the first node of an order that is among the top candidates
EarliestTop(order, q) ==
    LET top == TopCandidates(q)
    IN  order[CHOOSE i \in DOMAIN order :
                 /\ order[i] \in top
                 /\ \A j \in 1..(i - 1) : order[j] \notin top]

-----------------------------------------------------------------------------
(* C1 *)

\* C1 as stated: for every non-empty query (whitespace-only ones included) and every
\* knowledge base that meets the data-model invariant, get_response returns (it does
\* not raise) a non-empty string that is a node's bound response or a member of the
\* fallback pool.
C1_AsStated ==
    \A c \in Calls :
        (calls[c].query # <<>> /\ calls[c].query # NoStr /\ MeetsDataModel) =>
            /\ calls[c].pc # "raised"
            /\ calls[c].pc = "done" =>
                  /\ calls[c].result # <<>>
                  /\ calls[c].result # NoStr
                  /\ calls[c].result \in
                        {nodes[n].response : n \in DOMAIN nodes} \cup FallbackPool

\* C1, amended: the same, for the knowledge bases whose fallback pool holds no empty
\* string; the string returned is then non-empty, and is the bound response of a node
\* or a member of the fallback pool.
C1_NonEmptyResponse ==
    \A c \in Calls :
        (calls[c].query # <<>> /\ calls[c].query # NoStr /\ MeetsDataModel
            /\ <<>> \notin FallbackPool) =>
            /\ calls[c].pc # "raised"
            /\ calls[c].pc = "done" =>
                  /\ calls[c].result # <<>>
                  /\ calls[c].result # NoStr
                  /\ calls[c].result \in
                        {nodes[n].response : n \in DOMAIN nodes} \cup FallbackPool

\* a whitespace-only query answered from a fallback pool without an empty string
C1_Witness ==
    /\ MeetsDataModel
    /\ <<>> \notin FallbackPool
    /\ calls[1].pc = "done"
    /\ calls[1].query = <<" ">>
    /\ calls[1].result \in FallbackPool

-----------------------------------------------------------------------------
(* C2 *)

\* C2: for the empty query, _bfs_search and _dfs_search each return the fallback
\* pool's response at index 0, visit no node and draw nothing at random, and
\* get_response returns that same response.
C2_EmptyQueryShortCircuit ==
    \A c \in Calls :
        calls[c].query = <<>> =>
            /\ calls[c].pc \notin {"bfs", "dfs"}
            /\ calls[c].visited = <<>>
            /\ calls[c].draws = 0
            /\ calls[c].pc \in {"bfs_done", "dfs_done", "done"} =>
                  calls[c].bfs_response = Get(kb, FALLBACK).responses[1]
            /\ calls[c].pc \in {"dfs_done", "done"} =>
                  calls[c].dfs_response = Get(kb, FALLBACK).responses[1]
            /\ calls[c].pc = "done" => calls[c].result = Get(kb, FALLBACK).responses[1]

\* get_response("") has returned, from a pool of more than one response
C2_Witness ==
    /\ calls[1].pc = "done"
    /\ calls[1].query = <<>>
    /\ Cardinality(FallbackPool) > 1
    /\ calls[1].result = Get(kb, FALLBACK).responses[1]

-----------------------------------------------------------------------------
(* C3 *)

\* C3: get_response returns the depth-first result when it is strictly longer than the
\* breadth-first result, and the breadth-first result otherwise, ties included.
C3_LongerWinsBfsOnTie ==
    \A c \in Calls :
        calls[c].pc = "done" =>
            /\ Len(calls[c].dfs_response) > Len(calls[c].bfs_response) =>
                  calls[c].result = calls[c].dfs_response
            /\ Len(calls[c].dfs_response) <= Len(calls[c].bfs_response) =>
                  calls[c].result = calls[c].bfs_response

\* a tie in length between two different strings, settled for the breadth-first one
C3_Witness ==
    /\ calls[1].pc = "done"
    /\ Len(calls[1].dfs_response) = Len(calls[1].bfs_response)
    /\ calls[1].dfs_response # calls[1].bfs_response
    /\ calls[1].result = calls[1].bfs_response

-----------------------------------------------------------------------------
(* C4 *)

\* C4: each traversal visits the nodes in its order (breadth-first: root, categories,
\* keyword nodes category by category; depth-first: pre-order, children left to
\* right), and when some node with a non-empty response scores above zero it returns
\* the response of the earliest-visited node among those of the highest score.
C4_EarliestTopWins ==
    \A c \in Calls :
        /\ (calls[c].pc = "bfs_done" /\ calls[c].query # <<>>) =>
              /\ calls[c].visited = BreadthFirstOrder
              /\ Candidates(calls[c].query) # {} =>
                    /\ calls[c].best_match = EarliestTop(BreadthFirstOrder, calls[c].query)
                    /\ calls[c].bfs_response = nodes[calls[c].best_match].response
        /\ (calls[c].pc = "dfs_done" /\ calls[c].query # <<>>) =>
              /\ calls[c].visited = DepthFirstOrder
              /\ Candidates(calls[c].query) # {} =>
                    /\ calls[c].best_match = EarliestTop(DepthFirstOrder, calls[c].query)
                    /\ calls[c].dfs_response = nodes[calls[c].best_match].response

\* two nodes tie at the highest score, the orders differ on which comes first, and the
\* depth-first traversal has kept its earlier one
C4_Witness ==
    /\ calls[1].pc = "dfs_done"
    /\ calls[1].query # <<>>
    /\ Cardinality(TopCandidates(calls[1].query)) > 1
    /\ EarliestTop(DepthFirstOrder, calls[1].query)
          # EarliestTop(BreadthFirstOrder, calls[1].query)
    /\ calls[1].best_match = EarliestTop(DepthFirstOrder, calls[1].query)

-----------------------------------------------------------------------------
(* C5 *)

HasBfsResult(c) == calls[c].pc \in {"bfs_done", "dfs", "dfs_done", "done"}
HasDfsResult(c) == calls[c].pc \in {"dfs_done", "done"}

\* C5 as stated: on a fixed tree, two invocations of _bfs_search with the same query
\* return the same response, and so do two invocations of _dfs_search.
C5_AsStated ==
    \A c, d \in Calls :
        calls[c].query = calls[d].query =>
            /\ (HasBfsResult(c) /\ HasBfsResult(d)) =>
                  calls[c].bfs_response = calls[d].bfs_response
            /\ (HasDfsResult(c) /\ HasDfsResult(d)) =>
                  calls[c].dfs_response = calls[d].dfs_response

\* whether a search of q ends without the random draw from the fallback pool, or
\* draws from a pool of one response
Undrawn(q) ==
    \/ q = <<>>
    \/ Cardinality(FallbackPool) <= 1
    \/ \E n \in DOMAIN nodes :
          nodes[n].response # <<>> /\ TokenScore(q, nodes[n].keyword) > 0

\* C5, amended: on a fixed tree, two invocations of _bfs_search (of _dfs_search) with
\* the same query return the same response when the query is empty, when some node
\* with a non-empty response scores above zero, or when the fallback pool holds one
\* response only.
C5_SameResponseUnlessDrawn ==
    \A c, d \in Calls :
        (calls[c].query = calls[d].query /\ HasBfsResult(c) /\ HasBfsResult(d)
            /\ Undrawn(calls[c].query)) =>
            /\ calls[c].bfs_response = calls[d].bfs_response
            /\ (HasDfsResult(c) /\ HasDfsResult(d)) =>
                  calls[c].dfs_response = calls[d].dfs_response

\* two calls with the same matching query have both run both searches, over a pool of
\* more than one response
C5_Witness ==
    /\ calls[1].query = calls[2].query
    /\ calls[1].query # <<>>
    /\ Candidates(calls[1].query) # {}
    /\ Cardinality(FallbackPool) > 1
    /\ HasDfsResult(1) /\ HasDfsResult(2)
    /\ calls[1].dfs_response = calls[2].dfs_response

-----------------------------------------------------------------------------
(* C6 *)

\* C6 as stated: the tree has no node for the `fallback` category, and no traversal
\* ever returns the bound response of a matched `fallback` node.
C6_AsStated ==
    /\ \A n \in DOMAIN nodes : nodes[n].keyword # FALLBACK
    /\ \A c \in Calls :
          calls[c].best_match # NoNode => nodes[calls[c].best_match].keyword # FALLBACK

-----------------------------------------------------------------------------
(* C7 *)

\* C7: the score either traversal computes for a node is the number of distinct
\* lowercased whitespace-separated tokens of the query that are a substring of the
\* node's lowercased label or have it as a substring; it never exceeds the number of
\* distinct tokens. (Both traversals then give a node the same score for a query.)
C7_ScoreIsTokenCount ==
    \A c \in Calls :
        calls[c].node # NoNode =>
            /\ calls[c].score = TokenScore(calls[c].query, nodes[calls[c].node].keyword)
            /\ calls[c].score <= Cardinality(Tokens(calls[c].query))

\* a query with the same token twice, scored 1 by the depth-first traversal at a node
\* whose uppercase label the token equals once lowered
C7_Witness ==
    /\ calls[1].pc = "dfs"
    /\ calls[1].query = <<"a", " ", "a">>
    /\ calls[1].node # NoNode
    /\ nodes[calls[1].node].keyword = <<"A">>
    /\ calls[1].score = 1

-----------------------------------------------------------------------------
(* C8 *)

\* a knowledge base that violates the required shape
ViolatesShape ==
    \/ ~HasKey(kb, FALLBACK)
    \/ \E i \in DOMAIN kb :
          \/ "keywords" \notin DOMAIN kb[i].data
          \/ "responses" \notin DOMAIN kb[i].data
          \/ kb[i].data.responses = <<>>

\* C8 as stated: once the tree is built, get_response never raises; and a knowledge
\* base that violates the required shape is rejected when MiniGPT is constructed.
C8_AsStated ==
    /\ built = "ok" => \A c \in Calls : calls[c].pc # "raised"
    /\ (built # "no" /\ ViolatesShape) => built = "failed"

-----------------------------------------------------------------------------
(* C9 *)

\* C9: once the tree is built, no step of any get_response call, however the calls
\* interleave, changes the tree or the knowledge base, and a step changes the locals
\* of one call only.
C9_TreeAndKbUntouched ==
    [][built = "ok" =>
          /\ nodes' = nodes
          /\ kb' = kb
          /\ \A c, d \in Calls :
                (c # d /\ calls'[c] # calls[c]) => calls'[d] = calls[d]]_vars

\* two calls in flight at once, one in its depth-first loop, one in its breadth-first
\* loop, both past the root
C9_Witness ==
    /\ calls[1].pc = "dfs" /\ Len(calls[1].visited) > 1
    /\ calls[2].pc = "bfs" /\ Len(calls[2].visited) > 1

-----------------------------------------------------------------------------
(* C10 *)

\* C10 as stated: a groq-mode request to an inactive conversation is answered with
\* status 400 and the detail "Conversation is inactive. Please start a new
\* conversation.", and appends no message to the conversation.
C10_AsStated ==
    (reply.status # 0 /\ reply.mode = "groq" /\ reply.was_inactive) =>
        /\ reply.status = 400
        /\ reply.detail = INACTIVE_DETAIL
        /\ reply.appended = 0

====
